---- MODULE Spec2Model ----
(***************************************************************************)
(* Hardware Inventory Scanner: the session store of backend/main.py (the   *)
(* REST service) and process_vision_data of app.py (the single-page tool). *)
(*                                                                         *)
(* Spec      requests are served one at a time: every handler is one step. *)
(* SpecConc  process_image requests run in worker threads and interleave   *)
(*           at the points where the interpreter can switch threads.       *)
(***************************************************************************)
EXTENDS Integers, Sequences, FiniteSets, TLC

VARIABLES
    sessions,   \* main.py:29  the dict  session_id -> {"items", "started_at"}
    now,        \* the wall clock read by datetime.now(), in ticks
    resp,       \* the response of the request served last
    reqs        \* the process_image requests the worker threads serve (SpecConc)

vars == <<sessions, now, resp, reqs>>

(* ------------------------------ bounds -------------------------------- *)
MaxTick == 2          \* the clock stops at this tick
TicksPerSecond == 2   \* clock ticks within one second of strftime's output
MaxItems == 2         \* scan records held by the whole store
MaxReq == 2           \* process_image requests of one SpecConc behaviour

(* ------------------------ time and its formats ------------------------- *)
Ticks == 0..MaxTick

\* datetime.now().strftime("%Y%m%d_%H%M%S"): the clock truncated to seconds
SessionIdFormat(t) == "sid_" \o ToString(t \div TicksPerSecond)

\* datetime.now().strftime("%Y-%m-%d %H:%M:%S"): truncated to seconds
TimestampFormat(t) == "ts_" \o ToString(t \div TicksPerSecond)

\* datetime.now().isoformat(): the full resolution of the clock
Isoformat(t) == "iso_" \o ToString(t)

\* the identifiers a client can send: the ones start_session hands out
SessionIds == {SessionIdFormat(t) : t \in Ticks}

(* ----------------------------- JSON values ----------------------------- *)
JStr(s) == [t |-> "str", v |-> s]
JNull == [t |-> "null", v |-> ""]          \* JSON null, Python None
JList == [t |-> "list", v |-> ""]          \* a JSON array, Python list
JNum(n) == [t |-> "num", v |-> ToString(n)]

Fields == {"brand", "capacity", "generation", "speed"}

\* what the model reads off a label when it answers as the prompt asks
Label == [brand |-> JStr("Kingston"), capacity |-> JStr("8GB"),
          generation |-> JStr("DDR4"), speed |-> JStr("3200")]

Omit(obj, f) == [g \in (DOMAIN obj) \ {f} |-> obj[g]]

\* the JSON objects the external model answers with: as asked, with a field
\* omitted, with a field null, with a field that is not a string
ModelObjects ==
    { Label,
      Omit(Label, "capacity"),
      [Label EXCEPT !["brand"] = JNull],
      [Label EXCEPT !["speed"] = JList] }

\* how the external call ends: the API call raises (network, auth), the
\* content is not JSON, the content is a JSON array, the content is an object
CallKinds == {"api_error", "bad_json", "json_array", "json_object"}

\* the outcomes of one external call: the kind, and the object when it is one
CallOutcomes ==
    {<<kind, Label>> : kind \in CallKinds \ {"json_object"}}
        \cup {<<"json_object", obj>> : obj \in ModelObjects}

\* the inputs of one process_image request besides its session identifier:
\* whether GROQ_API_KEY is set, and how the external call ends when it is made
ImageInputs ==
    {<<FALSE, "api_error", Label>>}
        \cup {<<TRUE, o[1], o[2]>> : o \in CallOutcomes}

(* ------------------------------ HardwareData --------------------------- *)
DefaultOf(f) == IF f \in Fields THEN JStr("N/A") ELSE JNull

\* pydantic's validation of HardwareData(**result): a str field accepts a
\* string only, the Optional[str] timestamp also None
HardwareDataValid(result) ==
    /\ \A f \in Fields \cap DOMAIN result : result[f].t = "str"
    /\ "timestamp" \in DOMAIN result => result["timestamp"].t \in {"str", "null"}

\* the constructed HardwareData: a field result lacks takes its default
HardwareData(result) ==
    [f \in Fields \cup {"timestamp"} |->
        IF f \in DOMAIN result THEN result[f] ELSE DefaultOf(f)]

(* --------------------------- extract_hardware_info --------------------- *)
\* extract_hardware_info with a retry: a failed API call is made a second time
ExtractHardwareInfo_Retry(key, kind, obj) ==
    IF ~key
      THEN [raised |-> TRUE, detail |-> "GROQ_API_KEY not configured", calls |-> 0]
    ELSE IF kind = "api_error"
      THEN [raised |-> TRUE, detail |-> "api error", calls |-> 2]
    ELSE IF kind = "bad_json"
      THEN [raised |-> TRUE, detail |-> "json decode error", calls |-> 1]
    ELSE [raised |-> FALSE, detail |-> "", calls |-> 1,
          is_object |-> kind = "json_object", value |-> obj]

\* key: GROQ_API_KEY is set. The HTTPException it raises, or the parsed JSON;
\* calls counts the requests made to the external API.
ExtractHardwareInfo(key, kind, obj) ==
    IF ~key
      THEN [raised |-> TRUE, detail |-> "GROQ_API_KEY not configured", calls |-> 0]
    ELSE IF kind = "api_error"
      THEN [raised |-> TRUE, detail |-> "api error", calls |-> 1]
    ELSE IF kind = "bad_json"
      THEN [raised |-> TRUE, detail |-> "json decode error", calls |-> 1]
    ELSE [raised |-> FALSE, detail |-> "", calls |-> 1,
          is_object |-> kind = "json_object", value |-> obj]

(* ------------------------------ the store ------------------------------ *)
NewSession(t) == [items |-> <<>>, started_at |-> Isoformat(t)]

Put(store, sid, session) == (sid :> session) @@ store

Remove(store, sid) == [s \in (DOMAIN store) \ {sid} |-> store[s]]

RECURSIVE SumItems(_, _)
SumItems(store, ids) ==
    IF ids = {} THEN 0
    ELSE LET s == CHOOSE x \in ids : TRUE
         IN  Len(store[s].items) + SumItems(store, ids \ {s})

TotalItems(store) == SumItems(store, DOMAIN store)

\* start_session: sessions[session_id] = {"items": [], "started_at": ...}
StartSessionStore(store, t) == Put(store, SessionIdFormat(t), NewSession(t))

\* process_image: if request.session_id not in sessions: sessions[...] = {...}
AutoCreate(store, sid, t) ==
    IF sid \notin DOMAIN store THEN Put(store, sid, NewSession(t)) ELSE store

\* result["timestamp"] = datetime.now().strftime(...)
Stamp(obj, t) == ("timestamp" :> JStr(TimestampFormat(t))) @@ obj

\* append replaced by items.insert(0, result)
AppendItem_Front(store, sid, result) ==
    [store EXCEPT ![sid].items = <<result>> \o @]

\* sessions[request.session_id]["items"].append(result)
AppendItem(store, sid, result) ==
    [store EXCEPT ![sid].items = Append(@, result)]

\* end_session without its guard: del raises KeyError on a missing identifier
EndSessionResult_Unguarded(store, sid) ==
    IF sid \in DOMAIN store
      THEN [store |-> Remove(store, sid),
            out |-> [status |-> 200, message |-> "Session ended", session_id |-> sid]]
      ELSE [store |-> store,
            out |-> [status |-> 500, message |-> "Internal Server Error",
                     session_id |-> sid]]

\* end_session that empties the session instead of deleting it
EndSessionResult_ClearOnly(store, sid) ==
    [store |-> IF sid \in DOMAIN store
                 THEN [store EXCEPT ![sid].items = <<>>] ELSE store,
     out |-> [status |-> 200, message |-> "Session ended", session_id |-> sid]]

\* end_session: if session_id in sessions: del sessions[session_id]
EndSessionResult(store, sid) ==
    [store |-> IF sid \in DOMAIN store THEN Remove(store, sid) ELSE store,
     out |-> [status |-> 200, message |-> "Session ended", session_id |-> sid]]

(* ---------------------------- process_image ---------------------------- *)
\* ProcessResponse(success=False, error=...), answered with status 200
FailureResponse(detail) ==
    [status |-> 200, success |-> FALSE, data |-> JNull,
     error |-> JStr(detail), scan_count |-> 0]

\* ProcessResponse(success=True, data=HardwareData(**result), scan_count=...)
SuccessResponse(result, count) ==
    [status |-> 200, success |-> TRUE, data |-> HardwareData(result),
     error |-> JNull, scan_count |-> count]

\* the try block after the external call has returned value
StoreAndAnswer(store, sid, value, is_object, t) ==
    IF ~is_object
      THEN \* result["timestamp"] = ... on a list: TypeError
           [store |-> store, out |-> FailureResponse("TypeError")]
      ELSE LET result == Stamp(value, t)
               stored == AppendItem(store, sid, result)
           IN  IF HardwareDataValid(result)
                 THEN [store |-> stored,
                       out |-> SuccessResponse(result, Len(stored[sid].items))]
                 ELSE [store |-> stored,
                       out |-> FailureResponse("validation error")]

\* the whole handler, served alone
ProcessImageResult(store, sid, t, key, kind, obj) ==
    LET created == AutoCreate(store, sid, t)
        ext == ExtractHardwareInfo(key, kind, obj)
    IN  IF ext.raised
          THEN [store |-> created, out |-> FailureResponse(ext.detail),
                calls |-> ext.calls]
          ELSE [store |-> StoreAndAnswer(created, sid, ext.value, ext.is_object, t).store,
                out |-> StoreAndAnswer(created, sid, ext.value, ext.is_object, t).out,
                calls |-> ext.calls]

\* why the external call failed, or how it went (observation only)
CauseOf(key, kind) == IF ~key THEN "no_key" ELSE kind

(* ------------------------------ get_session ---------------------------- *)
NotFound == [status |-> 404, detail |-> "Session not found"]

\* get_session reading with sessions.get(session_id, <empty session>)
GetSessionResult_Default(store, sid) ==
    IF sid \in DOMAIN store
      THEN [status |-> 200, session_id |-> sid, items |-> store[sid].items,
            scan_count |-> Len(store[sid].items),
            started_at |-> store[sid].started_at]
      ELSE [status |-> 200, session_id |-> sid, items |-> <<>>,
            scan_count |-> 0, started_at |-> ""]

GetSessionResult(store, sid) ==
    IF sid \notin DOMAIN store THEN NotFound
    ELSE [status |-> 200, session_id |-> sid, items |-> store[sid].items,
          scan_count |-> Len(store[sid].items),
          started_at |-> store[sid].started_at]

(* ----------------------------- export_session -------------------------- *)
HeaderRow == <<JStr("#"), JStr("Brand"), JStr("Capacity"), JStr("Generation"),
               JStr("Speed (MHz)"), JStr("Scanned At")>>

\* item.get(key, "N/A")
ItemGet(item, key) == IF key \in DOMAIN item THEN item[key] ELSE JStr("N/A")

DataRow(idx, item) ==
    <<JNum(idx), ItemGet(item, "brand"), ItemGet(item, "capacity"),
      ItemGet(item, "generation"), ItemGet(item, "speed"),
      ItemGet(item, "timestamp")>>

\* ws.cell(value=...): openpyxl binds str, numbers and None (an empty cell)
\* and raises ValueError ("Cannot convert ... to Excel") for a list or dict;
\* export_session does not catch it, so the request ends in a 500
CellWritable(v) == v.t # "list"

RowWritable(row) == \A c \in 1..Len(row) : CellWritable(row[c])

ExportRows(items) ==
    <<HeaderRow>> \o [i \in 1..Len(items) |-> DataRow(i, items[i])]

ExportSessionResult(store, sid) ==
    IF sid \notin DOMAIN store THEN NotFound
    ELSE IF store[sid].items = <<>>
      THEN [status |-> 400, detail |-> "No items to export"]
    ELSE IF \E i \in 1..Len(store[sid].items) :
                ~RowWritable(DataRow(i, store[sid].items[i]))
      THEN [status |-> 500, detail |-> "Internal Server Error"]
    ELSE [status |-> 200, title |-> "Hardware Inventory",
          rows |-> ExportRows(store[sid].items)]

(* --------------------------- process_vision_data ----------------------- *)
\* app.py: the parsed JSON, or {"error": str(e)}; the client is built with
\* whatever key there is, so the call is always made
ProcessVisionDataResult(kind, obj) ==
    IF kind \in {"api_error", "bad_json"}
      THEN [result |-> ("error" :> JStr(kind)), calls |-> 1]
    ELSE IF kind = "json_array" THEN [result |-> JList, calls |-> 1]
    ELSE [result |-> obj, calls |-> 1]

(* ------------------------------- actions ------------------------------- *)
Idle == [pc |-> "idle"]

Init ==
    /\ sessions = <<>>
    /\ now = 0
    /\ resp = [op |-> "none"]
    /\ reqs = [r \in 1..MaxReq |-> Idle]

Tick ==
    /\ now < MaxTick
    /\ now' = now + 1
    /\ UNCHANGED <<sessions, resp, reqs>>

StartSession ==
    /\ sessions' = StartSessionStore(sessions, now)
    /\ resp' = [op |-> "start_session", status |-> 200,
                sid |-> SessionIdFormat(now),
                session_id |-> SessionIdFormat(now),
                message |-> "Session started"]
    /\ UNCHANGED <<now, reqs>>

ProcessImage(sid, key, kind, obj) ==
    /\ TotalItems(sessions) < MaxItems
    /\ LET r == ProcessImageResult(sessions, sid, now, key, kind, obj)
       IN  /\ sessions' = r.store
           /\ resp' = r.out @@ [op |-> "process_image", sid |-> sid,
                                calls |-> r.calls, cause |-> CauseOf(key, kind)]
    /\ UNCHANGED <<now, reqs>>

GetSession(sid) ==
    /\ resp' = GetSessionResult(sessions, sid) @@ [op |-> "get_session", sid |-> sid]
    /\ UNCHANGED <<sessions, now, reqs>>

ExportSession(sid) ==
    /\ resp' = ExportSessionResult(sessions, sid)
                  @@ [op |-> "export_session", sid |-> sid]
    /\ UNCHANGED <<sessions, now, reqs>>

\* existed, dropped: whether the identifier was in the store and how many scan
\* records it held when the request arrived (observation only)
EndSession(sid) ==
    /\ sessions' = EndSessionResult(sessions, sid).store
    /\ resp' = EndSessionResult(sessions, sid).out
                  @@ [op |-> "end_session", sid |-> sid,
                      existed |-> sid \in DOMAIN sessions,
                      dropped |-> IF sid \in DOMAIN sessions
                                    THEN Len(sessions[sid].items) ELSE 0]
    /\ UNCHANGED <<now, reqs>>

ProcessVisionData(kind, obj) ==
    /\ resp' = ProcessVisionDataResult(kind, obj)
                  @@ [op |-> "process_vision_data", cause |-> kind]
    /\ UNCHANGED <<sessions, now, reqs>>

Next ==
    \/ Tick
    \/ StartSession
    \/ \E sid \in SessionIds, in \in ImageInputs :
          ProcessImage(sid, in[1], in[2], in[3])
    \/ \E sid \in SessionIds : GetSession(sid)
    \/ \E sid \in SessionIds : ExportSession(sid)
    \/ \E sid \in SessionIds : EndSession(sid)
    \/ \E o \in CallOutcomes : ProcessVisionData(o[1], o[2])

Spec == Init /\ [][Next]_vars

(* ------------------- process_image in worker threads ------------------- *)
(* process_image is a plain def, which the framework runs in a worker      *)
(* thread per request: the statements of two requests interleave.  Each    *)
(* step below is one statement group of the handler, in program order.     *)
Reqs == 1..MaxReq

\* line 111: if request.session_id not in sessions
PI_Check(r, sid) ==
    /\ reqs[r].pc = "idle"
    /\ reqs' = [reqs EXCEPT ![r] =
                  [pc |-> IF sid \in DOMAIN sessions THEN "extract" ELSE "create",
                   sid |-> sid, absent |-> sid \notin DOMAIN sessions]]
    /\ UNCHANGED <<sessions, now, resp>>

\* lines 113-116: sessions[request.session_id] = {"items": [], ...}
PI_Create(r) ==
    /\ reqs[r].pc = "create"
    /\ sessions' = Put(sessions, reqs[r].sid, NewSession(now))
    /\ reqs' = [reqs EXCEPT ![r].pc = "extract"]
    /\ UNCHANGED <<now, resp>>

\* line 120: result = extract_hardware_info(request.image_base64)
PI_Extract(r, key, kind, obj) ==
    /\ reqs[r].pc = "extract"
    /\ LET ext == ExtractHardwareInfo(key, kind, obj)
       IN  reqs' = [reqs EXCEPT ![r] =
                IF ext.raised
                  THEN [pc |-> "done", out |-> FailureResponse(ext.detail)] @@ @
                ELSE IF ~ext.is_object
                  THEN [pc |-> "done", out |-> FailureResponse("TypeError")] @@ @
                ELSE [pc |-> "append", value |-> ext.value] @@ @]
    /\ UNCHANGED <<sessions, now, resp>>

\* lines 123-126: the timestamp, then sessions[...]["items"].append(result)
PI_Append(r) ==
    /\ reqs[r].pc = "append"
    /\ LET sid == reqs[r].sid
           result == Stamp(reqs[r].value, now)
       IN  IF sid \in DOMAIN sessions
             THEN /\ sessions' = AppendItem(sessions, sid, result)
                  /\ reqs' = [reqs EXCEPT ![r] =
                                [pc |-> "respond", result |-> result] @@ @]
             ELSE /\ sessions' = sessions
                  /\ reqs' = [reqs EXCEPT ![r] =
                                [pc |-> "done", out |-> FailureResponse("KeyError")] @@ @]
    /\ UNCHANGED <<now, resp>>

\* lines 128-136: HardwareData(**result), len(sessions[...]["items"])
PI_Respond(r) ==
    /\ reqs[r].pc = "respond"
    /\ LET sid == reqs[r].sid
           out == IF ~HardwareDataValid(reqs[r].result)
                    THEN FailureResponse("validation error")
                  ELSE IF sid \notin DOMAIN sessions
                    THEN FailureResponse("KeyError")
                  ELSE SuccessResponse(reqs[r].result, Len(sessions[sid].items))
       IN  reqs' = [reqs EXCEPT ![r] = [pc |-> "done", out |-> out] @@ @]
    /\ UNCHANGED <<sessions, now, resp>>

\* the scanning traffic: process_image requests and start_session
NextConc ==
    \/ Tick
    \/ StartSession
    \/ \E r \in Reqs, sid \in SessionIds : PI_Check(r, sid)
    \/ \E r \in Reqs : PI_Create(r)
    \/ \E r \in Reqs, in \in ImageInputs : PI_Extract(r, in[1], in[2], in[3])
    \/ \E r \in Reqs : PI_Append(r)
    \/ \E r \in Reqs : PI_Respond(r)

SpecConc == Init /\ [][NextConc]_vars

(* ------------------------------ properties ----------------------------- *)
\* the scan records session sid holds before the step (none when it is absent)
OldItems(sid) == IF sid \in DOMAIN sessions THEN sessions[sid].items ELSE <<>>

IsPrefix(a, b) == Len(a) <= Len(b) /\ SubSeq(b, 1, Len(a)) = a

\* the step serves a request of handler op (every handler answers with its name)
Serves(op) == resp'.op = op /\ now' = now

\* C1: creating a session under an identifier that is already in the store
\* (start_session yielding it again, or process_image's auto-create path)
\* keeps the session and every scan record it already holds.
C1_IdempotentCreation ==
    [][/\ (Serves("start_session") /\ StartSession
              /\ SessionIdFormat(now) \in DOMAIN sessions)
          => LET s == SessionIdFormat(now)
             IN  s \in DOMAIN sessions' /\ sessions'[s].items = sessions[s].items
       /\ Serves("process_image")
          => \A s \in DOMAIN sessions, in \in ImageInputs :
                ProcessImage(s, in[1], in[2], in[3])
                   => (s \in DOMAIN sessions'
                       /\ IsPrefix(sessions[s].items, sessions'[s].items))]_vars

\* C2: export_session of an existing session answers 400 "No items to export"
\* when it holds no scan record, and with N >= 1 records answers one sheet of
\* exactly N+1 rows, the header row first.
C2_ExportRowCount ==
    (resp.op = "export_session" /\ resp.sid \in DOMAIN sessions) =>
        IF sessions[resp.sid].items = <<>>
          THEN resp.status = 400 /\ resp.detail = "No items to export"
          ELSE /\ resp.status = 200
               /\ Len(resp.rows) = Len(sessions[resp.sid].items) + 1
               /\ resp.rows[1] = HeaderRow

\* C3: every scan record held in a session has each of brand, capacity,
\* generation and speed present and non-null.
C3_FieldsPresent ==
    \A s \in DOMAIN sessions : \A i \in 1..Len(sessions[s].items) :
        \A f \in Fields :
            /\ f \in DOMAIN sessions[s].items[i]
            /\ sessions[s].items[i][f].t # "null"

\* C4: end_session on an identifier that is not in the store answers
\* "Session ended" with status 200 and leaves the store as it was.
C4_EndMissingIsNoOp ==
    [][Serves("end_session")
          => \A sid \in SessionIds :
                (sid \notin DOMAIN sessions /\ EndSession(sid))
                   => /\ resp'.status = 200
                      /\ resp'.message = "Session ended"
                      /\ sessions' = sessions]_vars

C4_Witness ==
    /\ resp.op = "end_session"
    /\ ~resp.existed
    /\ \E s \in DOMAIN sessions : sessions[s].items # <<>>

\* C5: get_session and export_session on an identifier that is not in the
\* store both answer 404, and the store is unchanged (no session is created).
C5_MissingIsNotFound ==
    [][(Serves("get_session") \/ Serves("export_session"))
          => \A sid \in SessionIds :
                (sid \notin DOMAIN sessions
                    /\ (GetSession(sid) \/ ExportSession(sid)))
                   => /\ resp'.status = 404
                      /\ resp'.detail = "Session not found"
                      /\ sessions' = sessions]_vars

C5_Witness ==
    /\ resp.op \in {"get_session", "export_session"}
    /\ resp.sid \notin DOMAIN sessions
    /\ resp.status = 404
    /\ DOMAIN sessions # {}

C6_Failures == {"no_key", "api_error", "bad_json"}

\* C6 as stated: a failed external call is answered, not raised (process_image:
\* status 200, success=false, an error message; process_vision_data: a dict with
\* an "error" key), and every request makes exactly one external call.
C6_ExactlyOneCall ==
    /\ resp.op = "process_image" =>
          /\ resp.calls = 1
          /\ resp.cause \in C6_Failures =>
                (resp.status = 200 /\ ~resp.success /\ resp.error.t = "str")
    /\ resp.op = "process_vision_data" =>
          /\ resp.calls = 1
          /\ resp.cause \in C6_Failures => "error" \in DOMAIN resp.result

\* C6 as amended: the same, with at most one external call per request: one
\* whenever the call is reached, none when process_image finds no API key.
C6_FailureSurfaced ==
    /\ resp.op = "process_image" =>
          /\ resp.calls = (IF resp.cause = "no_key" THEN 0 ELSE 1)
          /\ resp.cause \in C6_Failures =>
                (resp.status = 200 /\ ~resp.success /\ resp.error.t = "str")
    /\ resp.op = "process_vision_data" =>
          /\ resp.calls = 1
          /\ resp.cause \in C6_Failures => "error" \in DOMAIN resp.result

C6_Witness ==
    /\ resp.op = "process_image"
    /\ resp.cause = "api_error"
    /\ ~resp.success
    /\ resp.calls = 1

\* C7: end_session(s) removes s from the store; while s is absent get_session
\* and export_session answer 404; s comes back only through start_session or
\* process_image, and then holds nothing but the record of that very request.
C7_DeletionDestroys ==
    [][\A s \in SessionIds :
          /\ (Serves("end_session") /\ EndSession(s)) => s \notin DOMAIN sessions'
          /\ ((Serves("get_session") \/ Serves("export_session"))
                 /\ s \notin DOMAIN sessions
                 /\ (GetSession(s) \/ ExportSession(s)))
                => (resp'.status = 404 /\ s \notin DOMAIN sessions')
          /\ (s \notin DOMAIN sessions /\ s \in DOMAIN sessions')
                => \/ StartSession /\ sessions'[s].items = <<>>
                   \/ \E in \in ImageInputs :
                         /\ ProcessImage(s, in[1], in[2], in[3])
                         /\ sessions'[s].items \in {<<>>, <<Stamp(in[3], now)>>}]_vars

C7_Witness ==
    /\ resp.op = "end_session"
    /\ resp.dropped >= 1
    /\ resp.sid \notin DOMAIN sessions

C9_FailureLeavesList ==
    [][(Serves("process_image") /\ ~resp'.success)
          => \A sid \in SessionIds, in \in ImageInputs :
                ProcessImage(sid, in[1], in[2], in[3])
                   => sessions'[sid].items = OldItems(sid)]_vars

\* two distinct requests for one identifier, both arriving before it is in the
\* store, have both answered success=true
BothSucceeded(r1, r2) ==
    /\ r1 # r2
    /\ reqs[r1].pc = "done" /\ reqs[r2].pc = "done"
    /\ reqs[r1].sid = reqs[r2].sid
    /\ reqs[r1].absent /\ reqs[r2].absent
    /\ reqs[r1].out.success /\ reqs[r2].out.success

\* the session of r1 and r2 holds the records of both
BothRecordsHeld(r1, r2) ==
    /\ reqs[r1].sid \in DOMAIN sessions
    /\ \E i, j \in 1..Len(sessions[reqs[r1].sid].items) :
          /\ i # j
          /\ sessions[reqs[r1].sid].items[i] = reqs[r1].result
          /\ sessions[reqs[r1].sid].items[j] = reqs[r2].result

\* C10: when two process_image requests for one identifier, both arriving
\* before it is in the store, have both answered success=true, the session
\* holds both records and the two scan_count values differ.
C10_NoScanLost ==
    \A r1, r2 \in Reqs :
        BothSucceeded(r1, r2)
           => /\ BothRecordsHeld(r1, r2)
              /\ reqs[r1].out.scan_count # reqs[r2].out.scan_count

\* the first half of C10 alone: the records of both requests are held
C10_BothRecordsHeld ==
    \A r1, r2 \in Reqs : BothSucceeded(r1, r2) => BothRecordsHeld(r1, r2)

====
